---- MODULE Spec2Model ----
(***************************************************************************)
(* Model of src/src/provider.ts, the Vitest provider of the Webstir test   *)
(* host: runTests / runVitest (engine location, environment markers,       *)
(* engine invocation, failure summaries), buildSummaryFromVitest,          *)
(* collectTaskResults, appendUnhandledErrors, formatUnhandledError and     *)
(* formatTaskErrors.                                                       *)
(*                                                                         *)
(* JavaScript values are records tagged with their type in field t, so     *)
(* that typeof / instanceof / truthiness tests of the source are tests on  *)
(* the tag.  An object's optional property is a field that is present or   *)
(* absent in the record.  A string is a sequence of atoms: an atom is a    *)
(* whitespace character (" " or "\n") or a piece of non-blank text.        *)
(***************************************************************************)
EXTENDS Integers, Sequences, FiniteSets, TLC

VARIABLES env, calls, frame, hist

vars == <<env, calls, frame, hist>>

-----------------------------------------------------------------------------
(* Bounds of the model. *)

MaxErrors == 2

MaxModules == 2

MaxModulesWithUnhandled == 1

MaxElapsed == 1

MaxOutput == 1

MaxCalls == 2

MaxNodes == 3

-----------------------------------------------------------------------------
(* JavaScript values. *)

Undefined == [t |-> "undefined"]

Null == [t |-> "null"]

Str(s) == [t |-> "string", v |-> s]

Num(n) == [t |-> "number", v |-> n]

Arr(s) == [t |-> "array", v |-> s]

Has(o, k) == k \in DOMAIN o

Get(o, k) == IF o.t \in {"undefined", "null"} THEN Undefined
             ELSE IF k \in DOMAIN o THEN o[k] ELSE Undefined

IsString(x) == x.t = "string"

IsNumber(x) == x.t = "number"

IsArray(x) == x.t = "array"

IsError(x) == x.t = "error"

Truthy(x) ==
    CASE x.t \in {"undefined", "null"} -> FALSE
      [] x.t = "string" -> x.v # <<>>
      [] x.t = "number" -> x.v # 0
      [] OTHER -> TRUE

Nullish(x) == x.t \in {"undefined", "null"}

-----------------------------------------------------------------------------
(* Strings. *)

Whitespace == {" ", "\n"}

RECURSIVE TrimStart(_)
TrimStart(s) ==
    IF s # <<>> /\ Head(s) \in Whitespace THEN TrimStart(Tail(s)) ELSE s

RECURSIVE TrimEnd(_)
TrimEnd(s) ==
    IF s # <<>> /\ s[Len(s)] \in Whitespace
    THEN TrimEnd(SubSeq(s, 1, Len(s) - 1))
    ELSE s

Trim(s) == TrimEnd(TrimStart(s))

BlankLine == <<"\n", "\n">>

RECURSIVE Join(_, _)
Join(list, sep) ==
    IF list = <<>> THEN <<>>
    ELSE IF Len(list) = 1 THEN list[1]
    ELSE list[1] \o sep \o Join(Tail(list), sep)

IndexOf(array, value) ==
    IF \E i \in 1..Len(array) : array[i] = value
    THEN CHOOSE i \in 1..Len(array) :
            array[i] = value /\ \A j \in 1..(i - 1) : array[j] # value
    ELSE 0

Contains(hay, needle) ==
    \E i \in 0..(Len(hay) - Len(needle)) :
        SubSeq(hay, i + 1, i + Len(needle)) = needle

-----------------------------------------------------------------------------
(* formatTaskErrors *)

NonBlankString(x) == IsString(x) /\ Len(Trim(x.v)) > 0

StackCandidates(stack) ==
    IF Truthy(stack) /\ NonBlankString(Get(stack, "message"))
    THEN <<Trim(Get(stack, "message").v)>>
    ELSE IF Truthy(stack) /\ NonBlankString(Get(stack, "stack"))
    THEN <<Trim(Get(stack, "stack").v)>>
    ELSE <<>>

RECURSIVE StacksCandidates(_)
StacksCandidates(stacks) ==
    IF stacks = <<>> THEN <<>>
    ELSE StackCandidates(Head(stacks)) \o StacksCandidates(Tail(stacks))

ErrorCandidates(error) ==
    IF ~Truthy(error) THEN <<>>
    ELSE (IF NonBlankString(Get(error, "message"))
          THEN <<Trim(Get(error, "message").v)>> ELSE <<>>)
         \o (IF IsArray(Get(error, "stacks"))
             THEN StacksCandidates(Get(error, "stacks").v)
             ELSE IF NonBlankString(Get(error, "stack"))
             THEN <<Trim(Get(error, "stack").v)>>
             ELSE <<>>)

RECURSIVE CollectMessages(_)
CollectMessages(errors) ==
    IF errors = <<>> THEN <<>>
    ELSE ErrorCandidates(Head(errors)) \o CollectMessages(Tail(errors))

(* The filter without the first-occurrence test. *)
KeepNonEmpty(array, index) == SelectSeq(array, LAMBDA value : Len(value) > 0)

RECURSIVE FilterFirstOccurrences(_, _)
FilterFirstOccurrences(array, index) ==
    IF index > Len(array) THEN <<>>
    ELSE (IF Len(array[index]) > 0 /\ IndexOf(array, array[index]) = index
          THEN <<array[index]>> ELSE <<>>)
         \o FilterFirstOccurrences(array, index + 1)

UniqueMessages(messages) == FilterFirstOccurrences(messages, 1)

formatTaskErrors(errors) ==
    IF ~Truthy(errors) \/ Len(errors.v) = 0 THEN Null
    ELSE LET unique == UniqueMessages(CollectMessages(errors.v))
         IN  IF Len(unique) > 0 THEN Str(Join(unique, BlankLine)) ELSE Null

-----------------------------------------------------------------------------
(* Paths: a path is a string whose atoms are its segments; an absolute path *)
(* starts with the root "/".  Cwd is process.cwd().                         *)

Cwd == <<"/", "w">>

IsAbsolute(p) == p # <<>> /\ Head(p) = "/"

RECURSIVE NormalizeSegments(_, _)
NormalizeSegments(done, rest) ==
    IF rest = <<>> THEN done
    ELSE IF Head(rest) = "." THEN NormalizeSegments(done, Tail(rest))
    ELSE IF Head(rest) = ".."
    THEN NormalizeSegments(IF Len(done) > 1 THEN SubSeq(done, 1, Len(done) - 1) ELSE done,
                           Tail(rest))
    ELSE NormalizeSegments(Append(done, Head(rest)), Tail(rest))

PathResolve(p) ==
    IF IsAbsolute(p) THEN NormalizeSegments(<<"/">>, Tail(p))
    ELSE NormalizeSegments(<<"/">>, Tail(Cwd) \o p)

RECURSIVE CommonPrefixLen(_, _)
CommonPrefixLen(a, b) ==
    IF a # <<>> /\ b # <<>> /\ Head(a) = Head(b)
    THEN 1 + CommonPrefixLen(Tail(a), Tail(b))
    ELSE 0

PathRelative(from, to) ==
    LET f == PathResolve(from)
        g == PathResolve(to)
        k == CommonPrefixLen(f, g)
    IN  [i \in 1..(Len(f) - k) |-> ".."] \o SubSeq(g, k + 1, Len(g))

normalizeCliFilter(file) ==
    LET relative == PathRelative(Cwd, file)
    IN  IF relative # <<>> /\ Head(relative) # ".." THEN relative ELSE file

Range(s) == {s[i] : i \in 1..Len(s)}

Max(a, b) == IF a >= b THEN a ELSE b

-----------------------------------------------------------------------------
(* createEmptySummary, createFailureSummary, formatFailureMessage *)

ProviderName == <<"[vitest provider]">>

createEmptySummary ==
    [passed |-> 0, failed |-> 0, total |-> 0, durationMs |-> 0, results |-> <<>>]

createFailureSummary(files, message) ==
    LET normalizedMessage == Trim(message)
        Failure(file) == [name |-> ProviderName, file |-> file, passed |-> FALSE,
                          message |-> Str(normalizedMessage), durationMs |-> 0]
        mapped == [i \in 1..Len(files) |-> Failure(files[i])]
        results == IF Len(mapped) = 0 THEN <<Failure(<<"[vitest]">>)>> ELSE mapped
    IN  [passed |-> 0, failed |-> Len(results), total |-> Len(results),
         durationMs |-> 0, results |-> results]

formatFailureMessage(reason, stdout, stderr) ==
    LET trimmedStdout == Trim(stdout)
        trimmedStderr == Trim(stderr)
        sections == <<Trim(reason)>>
                    \o (IF Len(trimmedStdout) > 0
                        THEN <<(<<"[stdout]", "\n">> \o trimmedStdout)>> ELSE <<>>)
                    \o (IF Len(trimmedStderr) > 0
                        THEN <<(<<"[stderr]", "\n">> \o trimmedStderr)>> ELSE <<>>)
    IN  Join(sections, BlankLine)

-----------------------------------------------------------------------------
(* formatUnhandledError.  JSON.stringify and String are modelled on the     *)
(* kinds of value the engine can report: JSON.stringify returns undefined   *)
(* for undefined, throws on a circular object and serialises the rest.      *)

JsonThrows(x) == x.t = "object" /\ Get(x, "circular") = [t |-> "boolean", v |-> TRUE]

JsonStringify(x) ==
    CASE x.t = "undefined" -> Undefined
      [] x.t = "null" -> Str(<<"null">>)
      [] x.t = "number" -> Str(<<ToString(x.v)>>)
      [] x.t = "string" -> Str(<<"\"">> \o x.v \o <<"\"">>)
      [] x.t = "function" -> Undefined
      [] OTHER -> Str(<<"{", "\n", " ", " ", "\"code\":", " ", ToString(Get(x, "code").v), "\n", "}">>)

ToJsString(x) ==
    CASE x.t = "undefined" -> <<"undefined">>
      [] x.t = "null" -> <<"null">>
      [] x.t = "number" -> <<ToString(x.v)>>
      [] x.t = "string" -> x.v
      [] x.t = "error" -> <<"Error:", " ">> \o Get(x, "message").v
      [] x.t = "function" -> <<"function", " ", "()", " ", "{}">>
      [] OTHER -> <<"[object Object]">>

formatUnhandledError(error) ==
    IF IsError(error)
    THEN IF Truthy(Get(error, "stack")) /\ Len(Trim(Get(error, "stack").v)) > 0
         THEN Get(error, "stack")
         ELSE IF Truthy(Get(error, "message")) THEN Get(error, "message")
         ELSE Str(<<"Unhandled error">>)
    ELSE IF IsString(error) THEN error
    ELSE IF JsonThrows(error) THEN Str(ToJsString(error))
    ELSE JsonStringify(error)

-----------------------------------------------------------------------------
(* collectTaskResults, appendUnhandledErrors, buildSummaryFromVitest *)

Suite == Str(<<"suite">>)

Test == Str(<<"test">>)

(* The state read from the result alone, the task's mode ignored. *)
ResultStateOnly(task) == Get(Get(task, "result"), "state")

TaskState(task) ==
    LET state == Get(Get(task, "result"), "state")
        mode == Get(task, "mode")
    IN  IF ~Nullish(state) THEN state
        ELSE IF mode = Str(<<"skip">>) \/ mode = Str(<<"todo">>) THEN mode
        ELSE Undefined

TestResult(task, filePath) ==
    LET state == TaskState(task)
        duration == Get(Get(task, "result"), "duration")
        durationMs == IF IsNumber(duration) THEN Max(0, duration.v) ELSE 0
        taskName == Get(task, "name")
        name == IF Truthy(taskName) /\ Len(Trim(taskName.v)) > 0
                THEN taskName.v ELSE <<"[unnamed]">>
        normalizedFile == IF filePath # <<>> THEN filePath ELSE <<"[vitest]">>
        passed == state = Str(<<"pass">>)
        errorMessage == formatTaskErrors(Get(Get(task, "result"), "errors"))
    IN  IF state = Str(<<"skip">>) \/ state = Str(<<"todo">>)
        THEN [name |-> name, file |-> normalizedFile, passed |-> TRUE,
              message |-> Null, durationMs |-> durationMs]
        ELSE [name |-> name, file |-> normalizedFile, passed |-> passed,
              message |-> IF passed THEN Null
                          ELSE IF ~Nullish(errorMessage) THEN errorMessage
                          ELSE Str(<<"Vitest reported a failure without additional details.">>),
              durationMs |-> durationMs]

(* A traversal that also descends into the children of a test. *)
RECURSIVE collectTaskResultsDeep(_, _, _)
collectTaskResultsDeep(tasks, filePath, accumulator) ==
    IF tasks = <<>> THEN accumulator
    ELSE LET task == Head(tasks)
             children == Get(task, "tasks")
             own == IF Truthy(task) /\ Get(task, "type") = Test
                    THEN Append(accumulator, TestResult(task, filePath))
                    ELSE accumulator
             after == IF Truthy(task) /\ Truthy(children)
                      THEN collectTaskResultsDeep(children.v, filePath, own)
                      ELSE own
         IN  collectTaskResultsDeep(Tail(tasks), filePath, after)

RECURSIVE collectTaskResults(_, _, _)
collectTaskResults(tasks, filePath, accumulator) ==
    IF tasks = <<>> THEN accumulator
    ELSE LET task == Head(tasks)
             children == Get(task, "tasks")
             after ==
                IF ~Truthy(task) THEN accumulator
                ELSE IF Get(task, "type") = Suite
                THEN IF Truthy(children)
                     THEN collectTaskResults(children.v, filePath, accumulator)
                     ELSE accumulator
                ELSE IF Truthy(children) /\ Len(children.v) > 0 /\ Get(task, "type") # Test
                THEN collectTaskResults(children.v, filePath, accumulator)
                ELSE IF Get(task, "type") # Test THEN accumulator
                ELSE Append(accumulator, TestResult(task, filePath))
         IN  collectTaskResults(Tail(tasks), filePath, after)

appendUnhandledErrors(errors, requestedFiles, results) ==
    IF ~Truthy(errors) \/ Len(errors.v) = 0 THEN results
    ELSE LET targetFile == IF requestedFiles # <<>> THEN requestedFiles[1] ELSE <<"[vitest]">>
             Unhandled(error) == [name |-> <<"[unhandled]">>, file |-> targetFile,
                                  passed |-> FALSE, message |-> formatUnhandledError(error),
                                  durationMs |-> 0]
         IN  results \o [i \in 1..Len(errors.v) |-> Unhandled(errors.v[i])]

ModuleFile(moduleResult) ==
    IF Truthy(Get(moduleResult, "filepath"))
    THEN Str(PathResolve(Get(moduleResult, "filepath").v))
    ELSE Null

(* No module is dropped. *)
NeverDropped(moduleResult, requestedSet) == FALSE

ModuleDropped(moduleResult, requestedSet) ==
    LET moduleFile == ModuleFile(moduleResult)
    IN  requestedSet # {} /\ Truthy(moduleFile) /\ moduleFile.v \notin requestedSet

ModuleDurationStep(moduleResult, moduleDuration) ==
    LET duration == Get(Get(moduleResult, "result"), "duration")
    IN  IF Truthy(ModuleFile(moduleResult)) /\ IsNumber(duration)
        THEN moduleDuration + Max(0, duration.v)
        ELSE moduleDuration

RECURSIVE ModuleLoop(_, _, _, _)
ModuleLoop(modules, requestedFiles, results, moduleDuration) ==
    IF modules = <<>> THEN [results |-> results, moduleDuration |-> moduleDuration]
    ELSE LET moduleResult == Head(modules)
             moduleFile == ModuleFile(moduleResult)
             requestedSet == {PathResolve(file) : file \in Range(requestedFiles)}
             targetFile == IF ~Nullish(moduleFile) THEN moduleFile.v
                           ELSE IF requestedFiles # <<>> THEN requestedFiles[1]
                           ELSE <<"[vitest]">>
         IN  IF ModuleDropped(moduleResult, requestedSet)
             THEN ModuleLoop(Tail(modules), requestedFiles, results, moduleDuration)
             ELSE ModuleLoop(Tail(modules), requestedFiles,
                             IF Truthy(Get(moduleResult, "tasks"))
                             THEN collectTaskResults(Get(moduleResult, "tasks").v,
                                                     targetFile, results)
                             ELSE results,
                             ModuleDurationStep(moduleResult, moduleDuration))

RECURSIVE SumDurations(_)
SumDurations(results) ==
    IF results = <<>> THEN 0
    ELSE Max(0, Head(results).durationMs) + SumDurations(Tail(results))

(* Counting every result as passed. *)
CountResults(results) == Len(results)

CountPassed(results) == Cardinality({i \in 1..Len(results) : results[i].passed})

ModuleLoopResult(modules, requestedFiles) ==
    ModuleLoop(IF Nullish(modules) THEN <<>> ELSE modules.v, requestedFiles, <<>>, 0)

buildSummaryFromVitest(modules, unhandledErrors, requestedFiles) ==
    LET loop == ModuleLoopResult(modules, requestedFiles)
        results == appendUnhandledErrors(unhandledErrors, requestedFiles, loop.results)
        passed == CountPassed(results)
        failed == Len(results) - passed
        durationFromTests == SumDurations(results)
        durationMs == IF durationFromTests > 0 THEN durationFromTests ELSE loop.moduleDuration
    IN  [passed |-> passed, failed |-> failed, total |-> Len(results),
         durationMs |-> durationMs, results |-> results]

-----------------------------------------------------------------------------
(* Inputs of formatTaskErrors. *)

ErrorMessages == {<<"a">>, <<" ", "a", "\n">>, <<" ">>}

ErrorTails ==
    { [t |-> "object"],
      [t |-> "object", stack |-> Str(<<"a", " ">>)],
      [t |-> "object", stack |-> Str(<<"b">>)],
      [t |-> "object", stack |-> Str(<<"b">>), stacks |-> Arr(<<>>)],
      [t |-> "object", stacks |-> Arr(<<[t |-> "object", message |-> Str(<<"b">>)]>>)],
      [t |-> "object", stacks |-> Arr(<<[t |-> "object", message |-> Str(<<" ">>),
                                                         stack |-> Str(<<"a">>)]>>)],
      [t |-> "object", stack |-> Str(<<"c">>),
                       stacks |-> Arr(<<Null,
                                        [t |-> "object", stack |-> Str(<<"b", " ">>)],
                                        [t |-> "object", message |-> Str(<<"a">>),
                                                         stack |-> Str(<<"c">>)]>>)] }

WithMessage(tail, m) == [k \in DOMAIN tail \cup {"message"} |->
                            IF k = "message" THEN Str(m) ELSE tail[k]]

TaskErrors ==
    {Null} \cup ErrorTails \cup {WithMessage(tail, m) : tail \in ErrorTails, m \in ErrorMessages}

RECURSIVE SeqsUpTo(_, _)
SeqsUpTo(S, n) ==
    IF n = 0 THEN {<<>>}
    ELSE LET shorter == SeqsUpTo(S, n - 1)
         IN  shorter \cup {Append(s, x) : s \in {q \in shorter : Len(q) = n - 1}, x \in S}

TaskErrorLists == {Undefined} \cup {Arr(s) : s \in SeqsUpTo(TaskErrors, MaxErrors)}

-----------------------------------------------------------------------------
(* The process environment and the calls of runTests in progress.          *)
(* env maps each marker to its value (Undefined when unset).  calls[c] is  *)
(* the activation of the c-th call: its position pc, its argument, the     *)
(* locals of runVitest (markersWritten tells that lines 169-171 ran), and  *)
(* at the end the summary it returns.  hist                                *)
(* records the environment at the last moment no call was in progress and  *)
(* the call that restored the markers last.                                *)

Markers == {"WEBSTIR_TEST_PROVIDER", "WEBSTIR_TESTING_PROVIDER", "WEBSTIR_TESTING_PROVIDER_SPEC"}

VitestKind == Str(<<"vitest">>)

PackageIdentity == Str(<<"@webstir-io/vitest-testing">>)

CallIds == 1..MaxCalls

IdleCall ==
    [pc |-> "idle", files |-> <<>>, envAtEntry |-> [m \in Markers |-> Undefined],
     original |-> [m \in Markers |-> Undefined], normalizedFiles |-> <<>>,
     filters |-> <<>>, stdout |-> <<>>, stderr |-> <<>>, startTime |-> 0,
     path |-> "none", thrown |-> Undefined, ctx |-> Undefined, elapsed |-> 0,
     moduleDuration |-> 0, markersWritten |-> FALSE, summary |-> createEmptySummary]

InProgress(c) == calls[c].pc \in {"importing", "running"}

NoCallInProgress == \A c \in CallIds : ~InProgress(c)

Enter(c, files) ==
    [IdleCall EXCEPT !.files = files, !.envAtEntry = env]

EnterHist == IF NoCallInProgress THEN [hist EXCEPT !.envIdle = env] ELSE hist

Finish(call, path, summary) ==
    [call EXCEPT !.pc = "done", !.path = path, !.summary = summary,
                 !.stdout = <<>>, !.stderr = <<>>]

NotInstalledMessage ==
    <<"[webstir-io/vitest-testing]", " ", "Vitest runtime not installed.", " ",
      "Install \"vitest\" in the active workspace or ensure it can be resolved.">>

LoadFailurePrefix ==
    <<"[webstir-io/vitest-testing]", " ", "Unable to load the Vitest runtime:", " ">>

NoExportMessage ==
    <<"[webstir-io/vitest-testing]", " ", "Unable to locate the Vitest startVitest export.">>

ExecutionFailedPrefix == <<"Vitest execution failed:", " ">>

ExecutionFailedGeneric == <<"Vitest execution failed.">>

(* runTests with an empty list: lines 57-59. *)
RunTestsEmpty(c) ==
    /\ calls[c].pc = "idle"
    /\ calls' = [calls EXCEPT ![c] = Finish(Enter(c, <<>>), "empty", createEmptySummary)]
    /\ hist' = EnterHist
    /\ UNCHANGED <<env, frame>>

(* runTests, runVitest: resolveVitestPackage returns null, lines 120-125. *)
RunTestsNotInstalled(c, files) ==
    /\ calls[c].pc = "idle"
    /\ files # <<>>
    /\ calls' = [calls EXCEPT ![c] =
                    Finish(Enter(c, files), "not-installed",
                           createFailureSummary(files, NotInstalledMessage))]
    /\ hist' = EnterHist
    /\ UNCHANGED <<env, frame>>

(* runTests, runVitest up to the await of the dynamic import, lines 120-131. *)
RunTestsImports(c, files) ==
    /\ calls[c].pc = "idle"
    /\ files # <<>>
    /\ calls' = [calls EXCEPT ![c] = [Enter(c, files) EXCEPT !.pc = "importing"]]
    /\ hist' = EnterHist
    /\ UNCHANGED <<env, frame>>

(* The import throws: lines 136-141. *)
ImportThrows(c, error) ==
    /\ calls[c].pc = "importing"
    /\ LET reason == IF IsError(error) THEN Get(error, "message").v ELSE ToJsString(error)
           message == LoadFailurePrefix \o reason
       IN  calls' = [calls EXCEPT ![c] =
                        Finish([@ EXCEPT !.thrown = error], "load-failed",
                               createFailureSummary(calls[c].files, message))]
    /\ UNCHANGED <<env, frame, hist>>

(* The module has no callable startVitest: lines 132-135, 143-147. *)
ImportLacksExport(c) ==
    /\ calls[c].pc = "importing"
    /\ calls' = [calls EXCEPT ![c] =
                    Finish(@, "no-export",
                           createFailureSummary(calls[c].files, NoExportMessage))]
    /\ UNCHANGED <<env, frame, hist>>

(* The promise of runTests settles and the caller takes the summary:       *)
(* lines 61-65.                                                            *)
Returns(c) ==
    /\ calls[c].pc = "done"
    /\ calls' = [calls EXCEPT ![c] = IdleCall]
    /\ UNCHANGED <<env, frame, hist>>

SetMarkers(e, originalSpecEnv) ==
    [e EXCEPT !["WEBSTIR_TEST_PROVIDER"] = VitestKind,
              !["WEBSTIR_TESTING_PROVIDER"] = PackageIdentity,
              !["WEBSTIR_TESTING_PROVIDER_SPEC"] =
                    IF Nullish(originalSpecEnv) THEN Str(<<>>) ELSE originalSpecEnv]

(* A marker assigned back even when it was unset: process.env turns the    *)
(* assigned undefined into the string 'undefined'.                         *)
AssignMarker(original) == IF IsString(original) THEN original ELSE Str(<<"undefined">>)

(* Every marker deleted, whatever was saved. *)
DeleteMarkers(e, original) == [m \in Markers |-> Undefined]

RestoreMarker(original) == IF IsString(original) THEN original ELSE Undefined

RestoreMarkers(e, original) == [m \in Markers |-> RestoreMarker(original[m])]

(* startVitest found: filters, sinks, markers saved and set, the engine    *)
(* called; lines 149-176, up to the await.                                 *)
EngineStarts(c) ==
    /\ calls[c].pc = "importing"
    /\ LET normalizedFiles == [i \in 1..Len(calls[c].files) |-> PathResolve(calls[c].files[i])]
       IN  calls' = [calls EXCEPT ![c] =
                [@ EXCEPT !.pc = "running",
                          !.normalizedFiles = normalizedFiles,
                          !.filters = [i \in 1..Len(normalizedFiles) |->
                                          normalizeCliFilter(normalizedFiles[i])],
                          !.stdout = <<>>, !.stderr = <<>>,
                          !.original = env,
                          !.markersWritten = TRUE,
                          !.startTime = 0]]
    /\ env' = SetMarkers(env, env["WEBSTIR_TESTING_PROVIDER_SPEC"])
    /\ UNCHANGED <<frame, hist>>

(* The engine writes to a capture sink: the 'data' handlers, lines 157-163. *)
EngineWrites(c, stream, chunk) ==
    /\ calls[c].pc = "running"
    /\ Len(calls[c][stream]) < MaxOutput
    /\ calls' = [calls EXCEPT ![c][stream] = @ \o chunk]
    /\ UNCHANGED <<env, frame, hist>>

TypeError(text) == [t |-> "error", message |-> Str(text)]

(* What lines 196-200 throw on the engine's context, Undefined if nothing. *)
SummaryError(ctx) ==
    IF Nullish(ctx)
    THEN TypeError(<<"Cannot read properties of undefined (reading 'state')">>)
    ELSE IF Get(ctx, "getFiles").t = "throws" THEN Get(ctx, "getFiles").error
    ELSE IF IsArray(Get(ctx, "getFiles"))
            /\ \E i \in 1..Len(Get(ctx, "getFiles").v) : Nullish(Get(ctx, "getFiles").v[i])
    THEN TypeError(<<"Cannot read properties of null (reading 'filepath')">>)
    ELSE Undefined

UnhandledOf(ctx) ==
    IF Has(ctx, "getUnhandledErrors") THEN ctx.getUnhandledErrors ELSE Arr(<<>>)

(* The catch block reporting the resolved files in place of the files as   *)
(* given.                                                                  *)
CatchSummaryResolved(call, error) ==
    LET reason == IF IsError(error)
                  THEN ExecutionFailedPrefix \o Get(error, "message").v
                  ELSE ExecutionFailedGeneric
    IN  createFailureSummary(call.normalizedFiles,
                             formatFailureMessage(reason, call.stdout, call.stderr))

(* The catch block, lines 204-211. *)
CatchSummary(call, error) ==
    LET reason == IF IsError(error)
                  THEN ExecutionFailedPrefix \o Get(error, "message").v
                  ELSE ExecutionFailedGeneric
        message == formatFailureMessage(reason, call.stdout, call.stderr)
    IN  createFailureSummary(call.files, message)

(* The summary as built, without the wall-clock fallback. *)
SummaryAsBuilt(call, ctx, dateNow) ==
    buildSummaryFromVitest(Get(ctx, "getFiles"), UnhandledOf(ctx), call.normalizedFiles)

(* The try block after the await, lines 193-203; dateNow is Date.now(). *)
SuccessSummary(call, ctx, dateNow) ==
    LET summary == buildSummaryFromVitest(Get(ctx, "getFiles"), UnhandledOf(ctx),
                                          call.normalizedFiles)
        durationMs == IF summary.durationMs > 0 THEN summary.durationMs
                      ELSE dateNow - call.startTime
    IN  IF summary.durationMs > 0 THEN summary
        ELSE [summary EXCEPT !.durationMs = durationMs]

(* The engine's promise resolves: lines 193-203, or 204-211 when building  *)
(* the summary throws, then the finally block, lines 212-230.              *)
EngineResolves(c, ctx, dt) ==
    /\ calls[c].pc = "running"
    /\ LET call == [calls[c] EXCEPT !.ctx = ctx, !.elapsed = dt]
           error == SummaryError(ctx)
       IN  calls' = [calls EXCEPT ![c] =
                IF error # Undefined
                THEN Finish([call EXCEPT !.thrown = error], "summary-threw",
                            CatchSummary(call, error))
                ELSE Finish([call EXCEPT !.moduleDuration =
                                ModuleLoopResult(Get(ctx, "getFiles"),
                                                 call.normalizedFiles).moduleDuration],
                            "ok", SuccessSummary(call, ctx, call.startTime + dt))]
    /\ env' = RestoreMarkers(env, calls[c].original)
    /\ hist' = [hist EXCEPT !.lastRestorer = c]
    /\ UNCHANGED frame

(* The engine's promise rejects: lines 204-211, then 212-230. *)
EngineRejects(c, error) ==
    /\ calls[c].pc = "running"
    /\ calls' = [calls EXCEPT ![c] =
                    Finish([@ EXCEPT !.thrown = error], "engine-threw",
                           CatchSummary(calls[c], error))]
    /\ env' = RestoreMarkers(env, calls[c].original)
    /\ hist' = [hist EXCEPT !.lastRestorer = c]
    /\ UNCHANGED frame

-----------------------------------------------------------------------------
(* Inputs of runTests: file lists, thrown values, engine output and the    *)
(* result contexts the engine reports.                                     *)

FileA == <<"/", "w", "a.test.ts">>

FileB == <<"/", "w", "b.test.ts">>

FileLists ==
    { <<>>,
      <<(<<"a.test.ts">>)>>,
      <<FileB, (<<".", "sub", "..", "a.test.ts">>)>>,
      <<(<<"..", "x.test.ts">>)>>,
      <<(<<"a.test.ts">>), FileA>> }

ThrownValues ==
    { [t |-> "error", message |-> Str(<<"boom">>)],
      [t |-> "error", message |-> Str(<<" ", "spaced", "\n">>)],
      Str(<<"plain">>),
      [t |-> "object", code |-> Num(1)] }

OutputChunks == [stdout |-> {<<"log", "\n">>}, stderr |-> {<<" ">>}]

Obj(fields) == [t |-> "object"] @@ fields

TestTask(name, fields) == Obj([type |-> Test, name |-> Str(name)] @@ fields)

Result(fields) == [result |-> Obj(fields)]

SampleTasks ==
    [ pass5 |-> TestTask(<<"adds">>, Result([state |-> Str(<<"pass">>), duration |-> Num(5)])),
      pass0 |-> TestTask(<<" ">>, Result([state |-> Str(<<"pass">>), duration |-> Num(0)])),
      failDup |-> TestTask(<<"fails twice">>,
                    Result([state |-> Str(<<"fail">>), duration |-> Num(-3),
                            errors |-> Arr(<<Obj([message |-> Str(<<"a">>)]),
                                             Obj([message |-> Str(<<" ", "a", "\n">>)])>>)])),
      failBare |-> TestTask(<<"fails">>, Result([state |-> Str(<<"fail">>)])),
      skipMode |-> TestTask(<<"skipped">>, [mode |-> Str(<<"skip">>)]),
      todoState |-> TestTask(<<"later">>,
                    [mode |-> Str(<<"run">>)] @@ Result([state |-> Str(<<"todo">>)])),
      runOnly |-> TestTask(<<"never ran">>, [mode |-> Str(<<"run">>)]) ]

SampleModules ==
    { Obj([filepath |-> Str(FileA), result |-> Obj([duration |-> Num(120)]),
           tasks |-> Arr(<<Obj([type |-> Suite, name |-> Str(<<"outer">>),
                                tasks |-> Arr(<<SampleTasks.pass0>>)]),
                           SampleTasks.skipMode>>)]),
      Obj([filepath |-> Str(FileB), result |-> Obj([duration |-> Num(-7)]),
           tasks |-> Arr(<<SampleTasks.pass5, SampleTasks.failDup>>)]),
      Obj([filepath |-> Str(<<"/", "w", "other.test.ts">>),
           result |-> Obj([duration |-> Num(50)]),
           tasks |-> Arr(<<SampleTasks.failBare>>)]),
      Obj([result |-> Obj([duration |-> Num(70)]),
           tasks |-> Arr(<<SampleTasks.runOnly, SampleTasks.todoState,
                           SampleTasks.skipMode>>)]),
      Obj([filepath |-> Str(<<>>), tasks |-> Arr(<<SampleTasks.pass0>>)]),
      Obj([filepath |-> Str(FileA), result |-> Obj([duration |-> Num(30)]),
           tasks |-> Arr(<<>>)]),
      Null }

UnhandledReports ==
    { Undefined,
      Arr(<<>>),
      Arr(<<[t |-> "error", message |-> Str(<<"late">>),
             stack |-> Str(<<"Error:", " ", "late", "\n", "at", " ", "x.ts">>)]>>),
      Arr(<<[t |-> "error", message |-> Str(<<"late">>), stack |-> Str(<<" ">>)],
            [t |-> "error", message |-> Str(<<>>)]>>),
      Arr(<<Str(<<"rejected">>), Obj([code |-> Num(7)])>>),
      Arr(<<Undefined>>),
      Arr(<<Obj([code |-> Num(7), circular |-> [t |-> "boolean", v |-> TRUE]])>>) }

ModuleReports ==
    {Undefined, [t |-> "throws", error |-> [t |-> "error", message |-> Str(<<"state lost">>)]]}
    \cup {Arr(modules) : modules \in SeqsUpTo(SampleModules, MaxModules)}

EngineContexts ==
    {Undefined}
    \cup {Obj([getFiles |-> modules]) : modules \in ModuleReports}
    \cup {Obj([getFiles |-> modules, getUnhandledErrors |-> errors]) :
            modules \in {m \in ModuleReports : IsArray(m) => Len(m.v) <= MaxModulesWithUnhandled},
            errors \in UnhandledReports}

InitialEnvs ==
    { [m \in Markers |-> Undefined],
      [m \in Markers |-> IF m = "WEBSTIR_TESTING_PROVIDER_SPEC"
                         THEN Str(<<"/", "checkout">>) ELSE Str(<<"jest">>)],
      [m \in Markers |-> IF m = "WEBSTIR_TESTING_PROVIDER"
                         THEN PackageIdentity ELSE Undefined] }

-----------------------------------------------------------------------------
(* One call of runTests at a time: the next call starts once the last one   *)
(* has returned.                                                           *)

NoFrame == [fn |-> "none"]

Init ==
    /\ env \in InitialEnvs
    /\ calls = [c \in CallIds |-> IdleCall]
    /\ frame = NoFrame
    /\ hist = [envIdle |-> env, lastRestorer |-> 0]

Next ==
    \/ RunTestsEmpty(1)
    \/ \E files \in FileLists : RunTestsNotInstalled(1, files)
    \/ \E files \in FileLists : RunTestsImports(1, files)
    \/ \E error \in ThrownValues : ImportThrows(1, error)
    \/ ImportLacksExport(1)
    \/ EngineStarts(1)
    \/ \E stream \in {"stdout", "stderr"} :
            \E chunk \in OutputChunks[stream] : EngineWrites(1, stream, chunk)
    \/ \E ctx \in EngineContexts, dt \in 0..MaxElapsed : EngineResolves(1, ctx, dt)
    \/ \E error \in ThrownValues : EngineRejects(1, error)
    \/ Returns(1)

Spec == Init /\ [][Next]_vars

-----------------------------------------------------------------------------
(* Overlapping calls: each of the calls is made once, and a call may start  *)
(* while another awaits the import or the engine.                          *)

OverlapFiles == <<(<<"a.test.ts">>)>>

OverlapContexts == {Obj([getFiles |-> Arr(<<>>)])}

NextOverlap ==
    \E c \in CallIds :
        \/ RunTestsImports(c, OverlapFiles)
        \/ EngineStarts(c)
        \/ \E ctx \in OverlapContexts : EngineResolves(c, ctx, 0)
        \/ \E error \in {Str(<<"plain">>)} : EngineRejects(c, error)

SpecOverlap == Init /\ [][NextOverlap]_vars

-----------------------------------------------------------------------------
(* formatTaskErrors applied to every list of TaskErrorLists. *)

InitErrors ==
    /\ env = [m \in Markers |-> Undefined]
    /\ calls = [c \in CallIds |-> IdleCall]
    /\ hist = [envIdle |-> env, lastRestorer |-> 0]
    /\ \E errors \in TaskErrorLists :
           frame = [fn |-> "formatTaskErrors", pc |-> "called", errors |-> errors,
                    ret |-> Undefined]

FormatTaskErrorsReturns ==
    /\ frame.fn = "formatTaskErrors"
    /\ frame.pc = "called"
    /\ frame' = [frame EXCEPT !.pc = "returned", !.ret = formatTaskErrors(frame.errors)]
    /\ UNCHANGED <<env, calls, hist>>

NextErrors == FormatTaskErrorsReturns

SpecErrors == InitErrors /\ [][NextErrors]_vars

-----------------------------------------------------------------------------
(* buildSummaryFromVitest applied to task trees of at most MaxNodes nodes,  *)
(* spread over a requested module and a module without a file, with a      *)
(* module of another file between them.                                    *)

LeafShapes ==
    { Null,
      Obj([type |-> Test]),
      Obj([type |-> Suite]),
      Obj([type |-> Suite, tasks |-> Arr(<<>>)]),
      [t |-> "object"] }

InnerShapes ==
    { Obj([type |-> Suite]), Obj([type |-> Test]), Obj([type |-> Str(<<"group">>)]),
      [t |-> "object"] }

RECURSIVE Forests(_)
Forests(n) ==
    IF n = 0 THEN {<<>>}
    ELSE UNION { { <<(IF a = 0 THEN shape ELSE shape @@ [tasks |-> Arr(children)])>> \o rest :
                     shape \in (IF a = 0 THEN LeafShapes ELSE InnerShapes),
                     children \in Forests(a),
                     rest \in Forests(n - 1 - a) } : a \in 0..(n - 1) }

RECURSIVE SumSeq(_)
SumSeq(s) == IF s = <<>> THEN 0 ELSE Head(s) + SumSeq(Tail(s))

PathName(path) == Str(<<"t">> \o [i \in 1..Len(path) |-> ToString(path[i])])

LabelFields(node, path) ==
    IF Get(node, "type") # Test THEN [name |-> PathName(path)]
    ELSE CASE SumSeq(path) % 3 = 0 ->
                [name |-> PathName(path),
                 result |-> Obj([state |-> Str(<<"pass">>), duration |-> Num(Len(path))])]
           [] SumSeq(path) % 3 = 1 ->
                [name |-> PathName(path), result |-> Obj([state |-> Str(<<"fail">>)])]
           [] OTHER ->
                [name |-> PathName(path), mode |-> Str(<<"skip">>)]

RECURSIVE Label(_, _)
Label(forest, prefix) ==
    [i \in 1..Len(forest) |->
        LET node == forest[i]
            path == Append(prefix, i)
        IN  IF node = Null THEN Null
            ELSE IF Has(node, "tasks")
            THEN LabelFields(node, path) @@ [tasks |-> Arr(Label(node.tasks.v, path))] @@ node
            ELSE LabelFields(node, path) @@ node]

FlattenFiles == <<FileA>>

FlattenModules(first, last) ==
    Arr(<<Obj([filepath |-> Str(FileA), result |-> Obj([duration |-> Num(9)]),
               tasks |-> Arr(Label(first, <<1>>))]),
          Obj([filepath |-> Str(<<"/", "w", "other.test.ts">>),
               tasks |-> Arr(Label(<<Obj([type |-> Test])>>, <<2>>))]),
          Obj([tasks |-> Arr(Label(last, <<3>>))])>>)

NodeSplits == {ab \in (0..MaxNodes) \X (0..MaxNodes) : ab[1] + ab[2] <= MaxNodes}

FlattenUnhandled == {Arr(<<>>), Arr(<<Str(<<"rejected">>)>>)}

InitFlatten ==
    /\ env = [m \in Markers |-> Undefined]
    /\ calls = [c \in CallIds |-> IdleCall]
    /\ hist = [envIdle |-> env, lastRestorer |-> 0]
    /\ \E split \in NodeSplits :
           \E first \in Forests(split[1]), last \in Forests(split[2]),
              errors \in FlattenUnhandled :
               frame = [fn |-> "buildSummaryFromVitest", pc |-> "called",
                        modules |-> FlattenModules(first, last),
                        unhandledErrors |-> errors,
                        requestedFiles |-> FlattenFiles, ret |-> createEmptySummary]

BuildSummaryReturns ==
    /\ frame.fn = "buildSummaryFromVitest"
    /\ frame.pc = "called"
    /\ frame' = [frame EXCEPT !.pc = "returned",
                              !.ret = buildSummaryFromVitest(frame.modules,
                                                             frame.unhandledErrors,
                                                             frame.requestedFiles)]
    /\ UNCHANGED <<env, calls, hist>>

NextFlatten == BuildSummaryReturns

SpecFlatten == InitFlatten /\ [][NextFlatten]_vars

-----------------------------------------------------------------------------
(* Positions in a report: <<m, i, j, ...>> is the j-th child of the i-th    *)
(* task of the m-th module.                                                *)

TaskChildren(node) ==
    IF Truthy(node) /\ IsArray(Get(node, "tasks")) THEN Get(node, "tasks").v ELSE <<>>

RECURSIVE PositionsIn(_)
PositionsIn(tasks) ==
    UNION { {<<i>>} \cup {<<i>> \o p : p \in PositionsIn(TaskChildren(tasks[i]))} :
            i \in 1..Len(tasks) }

RECURSIVE TaskAt(_, _)
TaskAt(tasks, position) ==
    IF Len(position) = 1 THEN tasks[position[1]]
    ELSE TaskAt(TaskChildren(tasks[position[1]]), Tail(position))

IsTestTask(node) == Truthy(node) /\ Get(node, "type") = Test

ResolvedSet(files) == {PathResolve(file) : file \in Range(files)}

HasFile(moduleResult) == Truthy(Get(moduleResult, "filepath"))

KeptModule(moduleResult, files) ==
    \/ files = <<>>
    \/ ~HasFile(moduleResult)
    \/ PathResolve(Get(moduleResult, "filepath").v) \in ResolvedSet(files)

ReachedTests(modules, files) ==
    UNION { { <<m>> \o p : p \in { q \in PositionsIn(TaskChildren(modules[m])) :
                                     /\ IsTestTask(TaskAt(TaskChildren(modules[m]), q))
                                     /\ \A k \in 1..(Len(q) - 1) :
                                            ~IsTestTask(TaskAt(TaskChildren(modules[m]),
                                                               SubSeq(q, 1, k))) } } :
            m \in {n \in 1..Len(modules) : KeptModule(modules[n], files)} }

Before(p, q) ==
    \E k \in 1..Len(q) :
        /\ \A j \in 1..(k - 1) : j <= Len(p) /\ p[j] = q[j]
        /\ (k > Len(p) \/ p[k] < q[k])

InOrder(S) ==
    [k \in 1..Cardinality(S) |->
        CHOOSE p \in S : Cardinality({q \in S : Before(q, p)}) = k - 1]

TaskOf(modules, position) == TaskAt(TaskChildren(modules[position[1]]), Tail(position))

ListOf(value) == IF IsArray(value) THEN value.v ELSE <<>>

ReportedModules(call) == ListOf(Get(call.ctx, "getFiles"))

ReportedUnhandled(call) == ListOf(UnhandledOf(call.ctx))

Returned(c) == calls[c].pc = "done"

FailurePaths == {"not-installed", "load-failed", "no-export", "engine-threw", "summary-threw"}

TestProvider == "WEBSTIR_TEST_PROVIDER"

-----------------------------------------------------------------------------
(* C1: a call with a non-empty file list that fails to locate, load or run  *)
(* the engine returns passed = 0, failed = total = number of files,        *)
(* durationMs = 0 and one failing '[vitest provider]' result per file, in   *)
(* order, with the file as given and a message that contains the failure   *)
(* reason: the fixed text of the failure, the load-failure text with the   *)
(* text of the thrown value, or the execution-failure text (with the       *)
(* message of the thrown Error, when it is one).                           *)

ThrownText(value) ==
    IF IsError(value) THEN Get(value, "message").v ELSE ToJsString(value)

FailureShape(call) ==
    /\ call.files # <<>>
    /\ call.summary.passed = 0
    /\ call.summary.failed = Len(call.files)
    /\ call.summary.total = Len(call.files)
    /\ call.summary.durationMs = 0
    /\ Len(call.summary.results) = Len(call.files)
    /\ \A i \in 1..Len(call.files) :
          /\ call.summary.results[i].name = ProviderName
          /\ call.summary.results[i].file = call.files[i]
          /\ call.summary.results[i].passed = FALSE
          /\ IsString(call.summary.results[i].message)

MessagesContain(call, text) ==
    \A i \in 1..Len(call.summary.results) :
        Contains(call.summary.results[i].message.v, Trim(text))

FailureReason(call) ==
    CASE call.path = "not-installed" -> <<"Vitest runtime not installed.">>
      [] call.path = "no-export" -> <<"Unable to locate the Vitest startVitest export.">>
      [] call.path = "load-failed" ->
            <<"Unable to load the Vitest runtime:", " ">> \o ThrownText(call.thrown)
      [] OTHER ->
            IF IsError(call.thrown)
            THEN <<"Vitest execution failed:", " ">> \o ThrownText(call.thrown)
            ELSE <<"Vitest execution failed.">>

C1_FailureSummaryCarriesReason ==
    \A c \in CallIds :
        (Returned(c) /\ calls[c].path \in FailurePaths) =>
            FailureShape(calls[c]) /\ MessagesContain(calls[c], FailureReason(calls[c]))

C1_Witness ==
    \E c \in CallIds :
        /\ Returned(c)
        /\ calls[c].path = "summary-threw"
        /\ Len(calls[c].files) = 2
        /\ calls[c].files[2] # PathResolve(calls[c].files[2])
        /\ MessagesContain(calls[c], <<"[stdout]">>)

-----------------------------------------------------------------------------
(* C2: every summary returned has total = length of results, total =       *)
(* passed + failed, and passed = the number of results that passed.        *)

C2_CountsPartitionResults ==
    \A c \in CallIds :
        Returned(c) =>
            LET summary == calls[c].summary
            IN  /\ summary.total = Len(summary.results)
                /\ summary.total = summary.passed + summary.failed
                /\ summary.passed =
                      Cardinality({i \in 1..Len(summary.results) : summary.results[i].passed})

C2_Witness ==
    \E c \in CallIds :
        /\ Returned(c)
        /\ calls[c].path = "ok"
        /\ calls[c].summary.passed > 0
        /\ calls[c].summary.failed > 0
        /\ calls[c].summary.durationMs = calls[c].elapsed
        /\ calls[c].elapsed > 0

-----------------------------------------------------------------------------
(* C3: with one call at a time, the three markers hold after the call what  *)
(* they held before it (unset if unset), on every exit path; on the early   *)
(* returns (empty list, engine not installed, load failure) the markers    *)
(* are never written.                                                      *)

EarlyPaths == {"empty", "not-installed", "load-failed", "no-export"}

C3_MarkersRestored ==
    \A c \in CallIds :
        /\ Returned(c) => env = calls[c].envAtEntry
        /\ calls[c].pc = "importing" => env = calls[c].envAtEntry
        /\ (Returned(c) /\ calls[c].path \in EarlyPaths) => ~calls[c].markersWritten
        /\ (Returned(c) /\ calls[c].path \notin EarlyPaths) => calls[c].markersWritten

C3_Witness ==
    \E c \in CallIds :
        /\ Returned(c)
        /\ calls[c].path = "engine-threw"
        /\ calls[c].markersWritten
        /\ env[TestProvider] = Undefined
        /\ env["WEBSTIR_TESTING_PROVIDER"] = PackageIdentity
        /\ env["WEBSTIR_TESTING_PROVIDER_SPEC"] = Undefined

-----------------------------------------------------------------------------
(* C4: in every result of every returned summary the message is null iff    *)
(* the result passed; a test whose state (its result state, or its mode     *)
(* skip/todo when it has no result state) is skip, todo or pass passed     *)
(* with a null message, every other test, every '[unhandled]' and every     *)
(* '[vitest provider]' result failed with a non-null message.              *)

ClaimedState(task) ==
    IF ~Nullish(Get(Get(task, "result"), "state")) THEN Get(Get(task, "result"), "state").v
    ELSE IF Get(task, "mode") \in {Str(<<"skip">>), Str(<<"todo">>)} THEN Get(task, "mode").v
    ELSE <<"none">>

C4_MessageNullIffPassed ==
    \A c \in CallIds :
        Returned(c) =>
            LET results == calls[c].summary.results
                order == InOrder(ReachedTests(ReportedModules(calls[c]),
                                              calls[c].normalizedFiles))
            IN  /\ \A i \in 1..Len(results) :
                      /\ (results[i].message = Null) <=> results[i].passed
                      /\ results[i].name \in {<<"[unhandled]">>, ProviderName} =>
                            ~results[i].passed /\ results[i].message # Null
                /\ calls[c].path = "ok" =>
                      /\ Len(order) <= Len(results)
                      /\ \A k \in 1..Len(order) :
                            IF ClaimedState(TaskOf(ReportedModules(calls[c]), order[k]))
                                 \in {<<"skip">>, <<"todo">>, <<"pass">>}
                            THEN results[k].passed /\ results[k].message = Null
                            ELSE ~results[k].passed /\ results[k].message # Null

C4_Witness ==
    \E c \in CallIds :
        /\ Returned(c)
        /\ calls[c].path = "ok"
        /\ LET results == calls[c].summary.results
               order == InOrder(ReachedTests(ReportedModules(calls[c]),
                                             calls[c].normalizedFiles))
           IN  /\ \E k \in 1..Len(order) :
                     /\ ~Has(TaskOf(ReportedModules(calls[c]), order[k]), "result")
                     /\ results[k].passed
               /\ \E k \in 1..Len(order) : ~results[k].passed
               /\ \E i \in 1..Len(results) : results[i].name = <<"[unhandled]">>

-----------------------------------------------------------------------------
(* C5: after a successful engine run durationMs is the sum of the results'  *)
(* durations (each floored at 0) when that sum is positive, otherwise the  *)
(* module-level duration when that is positive, otherwise the wall-clock   *)
(* time elapsed since just before the engine call.                         *)

ResultDurations(results) ==
    SumSeq([i \in 1..Len(results) |-> Max(0, results[i].durationMs)])

C5_DurationFallback ==
    \A c \in CallIds :
        (Returned(c) /\ calls[c].path = "ok") =>
            LET fromTests == ResultDurations(calls[c].summary.results)
            IN  calls[c].summary.durationMs =
                    IF fromTests > 0 THEN fromTests
                    ELSE IF calls[c].moduleDuration > 0 THEN calls[c].moduleDuration
                    ELSE calls[c].elapsed

C5_Witness ==
    \E c \in CallIds :
        /\ Returned(c)
        /\ calls[c].path = "ok"
        /\ calls[c].summary.total > 0
        /\ ResultDurations(calls[c].summary.results) = 0
        /\ calls[c].moduleDuration = 120
        /\ calls[c].elapsed = 1
        /\ calls[c].summary.durationMs = 120

-----------------------------------------------------------------------------
(* C6: for a non-empty file list every result's file resolves to a         *)
(* requested file; a module of another file adds no result, the tests of   *)
(* a module without a file and the unhandled errors are attributed to the  *)
(* first requested file.                                                   *)

ExpectedFile(moduleResult, files) ==
    IF HasFile(moduleResult) THEN PathResolve(Get(moduleResult, "filepath").v)
    ELSE PathResolve(files[1])

C6_ResultsBelongToRequestedFiles ==
    \A c \in CallIds :
        (Returned(c) /\ calls[c].files # <<>>) =>
            LET results == calls[c].summary.results
                modules == ReportedModules(calls[c])
                order == InOrder(ReachedTests(modules, calls[c].files))
            IN  /\ \A i \in 1..Len(results) :
                      PathResolve(results[i].file) \in ResolvedSet(calls[c].files)
                /\ calls[c].path = "ok" =>
                      /\ Len(results) = Len(order) + Len(ReportedUnhandled(calls[c]))
                      /\ \A k \in 1..Len(order) :
                            results[k].file = ExpectedFile(modules[order[k][1]], calls[c].files)
                      /\ \A k \in (Len(order) + 1)..Len(results) :
                            results[k].file = PathResolve(calls[c].files[1])

C6_Witness ==
    \E c \in CallIds :
        /\ Returned(c)
        /\ calls[c].path = "ok"
        /\ Len(calls[c].summary.results) > 0
        /\ Len(calls[c].files) = 2
        /\ \E m \in 1..Len(ReportedModules(calls[c])) :
              /\ ~KeptModule(ReportedModules(calls[c])[m], calls[c].files)
              /\ PositionsIn(TaskChildren(ReportedModules(calls[c])[m])) # {}
        /\ \E m \in 1..Len(ReportedModules(calls[c])) :
              /\ ~HasFile(ReportedModules(calls[c])[m])
              /\ PositionsIn(TaskChildren(ReportedModules(calls[c])[m])) # {}

-----------------------------------------------------------------------------
(* C9: the module-level duration pool is the sum, over the modules the     *)
(* requested-file filter keeps, of the module's own duration floored at 0,  *)
(* a kept module without a file included.                                  *)

OwnDuration(moduleResult) ==
    LET duration == Get(Get(moduleResult, "result"), "duration")
    IN  IF IsNumber(duration) /\ duration.v > 0 THEN duration.v ELSE 0

C9_PoolSumsKeptModules ==
    \A c \in CallIds :
        (Returned(c) /\ calls[c].path = "ok") =>
            LET modules == ReportedModules(calls[c])
            IN  calls[c].moduleDuration =
                    SumSeq([m \in 1..Len(modules) |->
                                IF KeptModule(modules[m], calls[c].files)
                                THEN OwnDuration(modules[m]) ELSE 0])

C9_Witness ==
    \E c \in CallIds :
        /\ Returned(c)
        /\ calls[c].path = "ok"
        /\ calls[c].moduleDuration = 30
        /\ calls[c].summary.durationMs = 30
        /\ LET modules == ReportedModules(calls[c])
           IN  /\ Len(modules) = 2
               /\ \E m \in 1..2 : /\ KeptModule(modules[m], calls[c].files)
                                  /\ PositionsIn(TaskChildren(modules[m])) = {}
                                  /\ OwnDuration(modules[m]) = 30
               /\ \E m \in 1..2 : /\ ~HasFile(modules[m])
                                  /\ OwnDuration(modules[m]) > 0

-----------------------------------------------------------------------------
(* C7: formatTaskErrors returns null when the error list is absent, empty   *)
(* or yields no candidate; otherwise the candidates (each error's message, *)
(* then per stacks entry its message or else its stack, or the error's own  *)
(* stack when it has no stacks sequence; all trimmed, blank ones left out)  *)
(* with duplicates removed, first occurrence kept, joined by a blank line.  *)

FirstOccurrences(candidates) ==
    {i \in 1..Len(candidates) : \A j \in 1..(i - 1) : candidates[j] # candidates[i]}

Distinct(candidates) ==
    [k \in 1..Cardinality(FirstOccurrences(candidates)) |->
        candidates[CHOOSE i \in FirstOccurrences(candidates) :
                      Cardinality({j \in FirstOccurrences(candidates) : j < i}) = k - 1]]

FrameCandidates == CollectMessages(ListOf(frame.errors))

C7_TaskErrorsFormatted ==
    (frame.fn = "formatTaskErrors" /\ frame.pc = "returned") =>
        /\ \A i \in 1..Len(FrameCandidates) :
              /\ FrameCandidates[i] # <<>>
              /\ Trim(FrameCandidates[i]) = FrameCandidates[i]
        /\ IF FrameCandidates = <<>>
           THEN frame.ret = Null
           ELSE frame.ret = Str(Join(Distinct(FrameCandidates), BlankLine))

C7_Witness ==
    /\ frame.fn = "formatTaskErrors"
    /\ frame.pc = "returned"
    /\ IsString(frame.ret)
    /\ Len(Distinct(FrameCandidates)) = 2
    /\ Len(FrameCandidates) > 2
    /\ \E i \in 1..Len(frame.errors.v) :
          /\ IsArray(Get(frame.errors.v[i], "stacks"))
          /\ NonBlankString(Get(frame.errors.v[i], "stack"))
          /\ ~Contains(frame.ret.v, Trim(Get(frame.errors.v[i], "stack").v))

-----------------------------------------------------------------------------
(* C8: the results are the tests of the kept modules in depth-first        *)
(* pre-order, modules in input order (a test is reached through non-test   *)
(* nodes only; what lies under a test is not visited), followed by one     *)
(* '[unhandled]' result per unhandled error, in order; total counts both.  *)

C8_ResultsInTraversalOrder ==
    (frame.fn = "buildSummaryFromVitest" /\ frame.pc = "returned") =>
        LET modules == ListOf(frame.modules)
            order == InOrder(ReachedTests(modules, frame.requestedFiles))
            unhandled == ListOf(frame.unhandledErrors)
            results == frame.ret.results
        IN  /\ Len(results) = Len(order) + Len(unhandled)
            /\ frame.ret.total = Len(order) + Len(unhandled)
            /\ \A k \in 1..Len(order) : results[k].name = PathName(order[k]).v
            /\ \A k \in 1..Len(unhandled) :
                  /\ results[Len(order) + k].name = <<"[unhandled]">>
                  /\ results[Len(order) + k].message = formatUnhandledError(unhandled[k])

C8_Witness ==
    /\ frame.fn = "buildSummaryFromVitest"
    /\ frame.pc = "returned"
    /\ LET modules == ListOf(frame.modules)
           reached == ReachedTests(modules, frame.requestedFiles)
       IN  /\ \E p \in reached : Len(p) = 3
           /\ \A p \in reached : p[1] = 1
           /\ Len(modules) = 3
           /\ \E q \in PositionsIn(TaskChildren(modules[1])) :
                 /\ IsTestTask(TaskAt(TaskChildren(modules[1]), q))
                 /\ <<1>> \o q \notin reached
           /\ Len(ListOf(frame.unhandledErrors)) = 1
           /\ Len(frame.ret.results) = Cardinality(reached) + 1

-----------------------------------------------------------------------------
(* C10: the markers are saved and restored per call without coordination.  *)
(* When two calls overlap so that the second saves the markers after the    *)
(* first has set them, and the second restores last, the environment is    *)
(* left holding the values the first call set: WEBSTIR_TEST_PROVIDER stays  *)
(* 'vitest' although it was unset before both calls.                       *)

C10_OverlapLeavesMarkersSet ==
    \A a, b \in CallIds :
        ( /\ a # b
          /\ Returned(a) /\ Returned(b)
          /\ NoCallInProgress
          /\ hist.lastRestorer = b
          /\ calls[a].original = hist.envIdle
          /\ hist.envIdle[TestProvider] = Undefined
          /\ calls[b].original[TestProvider] = VitestKind )
        => /\ env[TestProvider] = VitestKind
           /\ env = SetMarkers(hist.envIdle, hist.envIdle["WEBSTIR_TESTING_PROVIDER_SPEC"])
           /\ env # hist.envIdle

C10_Witness ==
    /\ NoCallInProgress
    /\ Returned(1) /\ Returned(2)
    /\ hist.lastRestorer = 2
    /\ calls[1].original = hist.envIdle
    /\ calls[2].original[TestProvider] = VitestKind
    /\ hist.envIdle = [m \in Markers |-> Undefined]
    /\ env[TestProvider] = VitestKind
    /\ calls[1].path = "ok"
    /\ calls[2].path = "engine-threw"

====
